---- MODULE Spec2Model ----
(***************************************************************************)
(* A model of the DanceOnDaGo back end:                                    *)
(*   - DanceMoveSampler (backend/nn/data_analyzer.py): feature             *)
(*     normalisation, intensity classification and the per-segment /       *)
(*     per-frame sequencing loop of sample_dance_moves_for_song;           *)
(*   - KeypointDataLoader (backend/nn/keypoint_data_loader.py): the clip   *)
(*     store the sampler reads;                                            *)
(*   - RealTimePoseScorer (backend/nn/scoring/real_time_pose_scorer.py).   *)
(*                                                                         *)
(* Times are seconds and exact rationals <<n, d>>, d > 0.  The weights,    *)
(* features and scores of the sampler are binary floating-point numbers:   *)
(* every arithmetic operation on them is rounded to nearest, ties to even, *)
(* at Precision significant bits (see Fl).                                 *)
(***************************************************************************)
EXTENDS Integers, Sequences, FiniteSets, TLC

\* ------------------------------------------------------------ rationals

R(n, d) == <<n, d>>
RLe(a, b) == a[1] * b[2] <= b[1] * a[2]
RLt(a, b) == a[1] * b[2] < b[1] * a[2]
REq(a, b) == a[1] * b[2] = b[1] * a[2]
RAdd(a, b) == <<a[1] * b[2] + b[1] * a[2], a[2] * b[2]>>
RSub(a, b) == <<a[1] * b[2] - b[1] * a[2], a[2] * b[2]>>
RMul(a, b) == <<a[1] * b[1], a[2] * b[2]>>
RMax(a, b) == IF RLe(a, b) THEN b ELSE a
RMin(a, b) == IF RLe(a, b) THEN a ELSE b
Zero == R(0, 1)
One == R(1, 1)
Half == R(1, 2)

Min2(a, b) == IF a <= b THEN a ELSE b
SetMin(S) == CHOOSE x \in S : \A y \in S : x <= y
SetMax(S) == CHOOSE x \in S : \A y \in S : x >= y

RECURSIVE Gcd(_, _)
Gcd(a, b) == IF b = 0 THEN a ELSE Gcd(b, a % b)
\* Lowest terms, so that equal numbers are equal values.
Norm(x) ==
    LET a == IF x[1] < 0 THEN 0 - x[1] ELSE x[1]
        g == Gcd(a, x[2])
    IN <<x[1] \div g, x[2] \div g>>
RNeg(x) == <<0 - x[1], x[2]>>
RAbs(x) == IF x[1] < 0 THEN RNeg(x) ELSE x
RDiv(a, b) ==
    IF b[1] > 0 THEN <<a[1] * b[2], a[2] * b[1]>>
    ELSE <<0 - (a[1] * b[2]), 0 - (a[2] * b[1])>>

\* --------------------------------------------- floating-point arithmetic

\* Significant bits of a float (a double has 53).
Precision == 5

RECURSIVE Pow2(_)
Pow2(k) == IF k = 0 THEN 1 ELSE 2 * Pow2(k - 1)

\* The binary exponent e of n/d > 0: 2^e <= n/d < 2^(e+1).
RECURSIVE Exponent(_, _)
Exponent(n, d) ==
    IF n >= 2 * d THEN Exponent(n, 2 * d) + 1
    ELSE IF n < d THEN Exponent(2 * n, d) - 1
    ELSE 0

\* n/d rounded to the nearest integer, ties to the even one.
RoundHalfEven(n, d) ==
    LET q == n \div d
        r == n % d
    IN IF 2 * r > d \/ (2 * r = d /\ q % 2 = 1) THEN q + 1 ELSE q

FlPos(n, d) ==
    LET ulp == Exponent(n, d) - (Precision - 1)
    IN IF ulp >= 0
       THEN Norm(<<RoundHalfEven(n, d * Pow2(ulp)) * Pow2(ulp), 1>>)
       ELSE Norm(<<RoundHalfEven(n * Pow2(0 - ulp), d), Pow2(0 - ulp)>>)

\* The float nearest to the real number x.
Fl(x) ==
    IF x[1] = 0 THEN Zero
    ELSE IF x[1] > 0 THEN FlPos(x[1], x[2])
    ELSE RNeg(FlPos(0 - x[1], x[2]))

\* Python's +, -, *, / on floats.
FAdd(a, b) == Fl(RAdd(a, b))
FSub(a, b) == Fl(RSub(a, b))
FMul(a, b) == Fl(RMul(a, b))
FDiv(a, b) == Fl(RDiv(a, b))

\* ------------------------------------------------- bounds of the model

\* Longest song, in seconds.
MaxSong == 12
\* Largest raw amplitude of a segment.
MaxAmp == 2
\* Reads of the clip store that may fail during one run.
MaxReadFail == 1

\* -------------------------------------------------- program constants

\* data_analyzer.py:257 np.arange(0, song_duration, 5.0)
SegmentLength == 5
\* data_analyzer.py:298 minimum dwell before an intensity switch
MinDwell == 2
\* data_analyzer.py:330 max_retries
max_retries == 10
\* data_analyzer.py:361 min(10, num_frames)
MaxSampleFrames == 10
\* data_analyzer.py:446 range(1, min(50, num_frames))
SearchRadius == 50
\* data_analyzer.py:188,190 fallback duration
DefaultDuration == 5
\* keypoint_data_loader.py:17 DanceSequence.frame_rate
ClipFrameRate == 30
\* data_analyzer.py:120 BPM range
BpmLo == 60
BpmHi == 200

LOW == "low"
MEDIUM == "medium"
HIGH == "high"

None == "None"

\* ------------------------------------------------- DanceMoveSampler, pure

\* __init__: the weights are divided by their sum.
SamplerInitUnscaled(amplitude_weight, bpm_weight) ==
    [amplitude_weight |-> amplitude_weight, bpm_weight |-> bpm_weight]
SamplerInit(amplitude_weight, bpm_weight) ==
    LET total_weight == FAdd(amplitude_weight, bpm_weight)
    IN [amplitude_weight |-> FDiv(amplitude_weight, total_weight),
        bpm_weight |-> FDiv(bpm_weight, total_weight)]

NormAmplitudesByMax(amplitudes) ==
    IF amplitudes = <<>> THEN <<>>
    ELSE LET vals == {amplitudes[i] : i \in DOMAIN amplitudes}
         IN IF SetMax(vals) > SetMin(vals)
            THEN [i \in DOMAIN amplitudes |->
                     FDiv(R(amplitudes[i], 1), R(SetMax(vals), 1))]
            ELSE [i \in DOMAIN amplitudes |-> Half]

\* normalize_features, amplitudes: min-max over the song, 0.5 when all equal.
NormAmplitudes(amplitudes) ==
    IF amplitudes = <<>> THEN <<>>
    ELSE LET vals == {amplitudes[i] : i \in DOMAIN amplitudes}
             min_amp == SetMin(vals)
             max_amp == SetMax(vals)
         IN IF max_amp > min_amp
            THEN [i \in DOMAIN amplitudes |->
                     FDiv(FSub(R(amplitudes[i], 1), R(min_amp, 1)),
                          FSub(R(max_amp, 1), R(min_amp, 1)))]
            ELSE [i \in DOMAIN amplitudes |-> Half]

NormBpmUnclamped(bpm) ==
    FDiv(FSub(R(bpm, 1), R(BpmLo, 1)), FSub(R(BpmHi, 1), R(BpmLo, 1)))

\* normalize_features, one BPM: (bpm - 60) / (200 - 60), clamped to [0, 1].
NormBpm(bpm) ==
    LET norm_bpm == FDiv(FSub(R(bpm, 1), R(BpmLo, 1)),
                         FSub(R(BpmHi, 1), R(BpmLo, 1)))
    IN RMax(Zero, RMin(One, norm_bpm))

NormBpms(bpms) == [i \in DOMAIN bpms |-> NormBpm(bpms[i])]

\* calculate_intensity_score
calculate_intensity_score(w, norm_amplitude, norm_bpm) ==
    FAdd(FMul(w.amplitude_weight, norm_amplitude),
         FMul(w.bpm_weight, norm_bpm))

\* The threshold classification of sample_dance_moves_for_song.
ClassifyStrict(score, low_threshold, high_threshold) ==
    IF RLt(score, low_threshold) THEN LOW
    ELSE IF RLt(high_threshold, score) THEN HIGH
    ELSE MEDIUM
Classify(score, low_threshold, high_threshold) ==
    IF RLe(score, low_threshold) THEN LOW
    ELSE IF RLe(high_threshold, score) THEN HIGH
    ELSE MEDIUM

\* ------------------------------------------------------ the clip store

(* A stored clip: the number of array dimensions of its pickled data, the  *)
(* length of its frame axis and the set of frames holding a NaN.           *)
AllFrames(n) == 0 .. (n - 1)

ClipData(c) ==
    CASE c = "long"   -> [ndim |-> 3, frames |-> 170, nan |-> {}]
      [] c = "fit"    -> [ndim |-> 4, frames |-> 160, nan |-> {}]
      [] c = "short"  -> [ndim |-> 3, frames |-> 3, nan |-> {1}]
      [] c = "bad"    -> [ndim |-> 3, frames |-> 60, nan |-> AllFrames(60)]
      [] c = "single" -> [ndim |-> 2, frames |-> 1, nan |-> {}]
      [] c = "empty"  -> [ndim |-> 3, frames |-> 0, nan |-> {}]
      [] c = "gap"    -> [ndim |-> 3, frames |-> 120, nan |-> 1 .. 99]
      [] c = "edge"   -> [ndim |-> 4, frames |-> 60, nan |-> 0 .. 5]
      [] c = "tight"  -> [ndim |-> 3, frames |-> 155, nan |-> {}]

\* num_frames as the sampler derives it from the array's shape.
NumFrames(c) ==
    IF ClipData(c).ndim = 4 THEN ClipData(c).frames
    ELSE IF ClipData(c).ndim = 3 THEN ClipData(c).frames
    ELSE 1

\* A catalogue: the store's listing and the intensity table (by position).
Catalogs ==
    << [available_dances |-> <<"long">>, intensity_mappings |-> <<>>],
       [available_dances |-> <<>>, intensity_mappings |-> <<MEDIUM>>],
       [available_dances |-> <<"long", "fit", "short", "bad">>,
        intensity_mappings |-> <<MEDIUM, MEDIUM, LOW, HIGH, LOW>>],
       [available_dances |-> <<"single", "empty", "short">>,
        intensity_mappings |-> <<MEDIUM, HIGH>>],
       [available_dances |-> <<"gap", "edge", "tight">>,
        intensity_mappings |-> <<MEDIUM, MEDIUM, MEDIUM>>] >>
Listing(c) ==
    {Catalogs[c].available_dances[k] :
        k \in DOMAIN Catalogs[c].available_dances}
\* The catalogues run with every input, and the one whose clips have long
\* runs of invalid frames, run with one song.
PlainCatalogs == {c \in DOMAIN Catalogs : "gap" \notin Listing(c)}
GapCatalogs == DOMAIN Catalogs \ PlainCatalogs

\* get_dances_by_intensity
get_dances_by_intensity(intensity, available_dances, intensity_mappings) ==
    LET idx == SelectSeq([i \in 1 .. Len(intensity_mappings) |-> i],
                         LAMBDA i : intensity_mappings[i] = intensity
                                    /\ i <= Len(available_dances))
    IN [k \in 1 .. Len(idx) |-> available_dances[idx[k]]]

ChoiceListAll(intensity, cat) == cat.available_dances

\* The list random.choice draws from, for a selection at `intensity`:
\* the intensity's own list when it is not empty, else every listed clip.
ChoiceList(intensity, cat) ==
    LET own == get_dances_by_intensity(intensity, cat.available_dances,
                                       cat.intensity_mappings)
    IN IF own # <<>> THEN own ELSE cat.available_dances

\* get_dance_duration: frames / frame_rate of the loaded sequence, 5.0 when
\* it cannot be loaded.
get_dance_duration(c, loaded) ==
    IF loaded THEN R(NumFrames(c), ClipFrameRate) ELSE R(DefaultDuration, 1)

\* ------------------------------------------------------- poses, frames

NoPose == [kind |-> "none", clip |-> None, idx |-> 0]
UnboundPose == [kind |-> "unbound", clip |-> None, idx |-> 0]
\* The synthesized standing pose (17 joints, no NaN).
DefaultPose == [kind |-> "default", clip |-> None, idx |-> 0]
\* Frame idx of clip c's stored data.
FramePose(c, i) == [kind |-> "frame", clip |-> c, idx |-> i]

\* not np.isnan(pose).any()
PoseClean(p) ==
    \/ p.kind = "default"
    \/ p.kind = "frame" /\ p.idx \notin ClipData(p.clip).nan

NoFrame ==
    [frame_number |-> -1, time |-> Zero, dance_file |-> None,
     dance_frame |-> 0, intensity |-> None, pose_data |-> NoPose]

\* The offsets of the search for a clean frame, in the order tried:
\* for offset in range(1, min(50, num_frames)): for direction in [1, -1].
SearchOrder(num_frames) ==
    [k \in 1 .. 2 * (Min2(SearchRadius, num_frames) - 1) |->
        IF k % 2 = 1 THEN (k + 1) \div 2 ELSE 0 - (k \div 2)]

\* The first clean frame of clip c met by the search around dance_frame, or
\* the default pose when the search meets none.
NearbyClean(c, dance_frame) ==
    LET num_frames == NumFrames(c)
        order == SearchOrder(num_frames)
        hits == {k \in DOMAIN order :
                    ((dance_frame + order[k]) % num_frames)
                        \notin ClipData(c).nan}
    IN IF hits = {} THEN DefaultPose
       ELSE FramePose(c, (dance_frame + order[SetMin(hits)]) % num_frames)

\* -------------------------------------- sample_dance_moves_for_song: state

VARIABLES
    inp,                     \* the arguments and collaborators of the run
    pc,                      \* position in sample_dance_moves_for_song
    seg,                     \* 1-based index of the segment being processed
    intensity,               \* the current segment's classified intensity
    current_dance_file,
    current_dance_duration,
    current_dance_elapsed,
    current_intensity,
    frame_number,
    segment_duration,        \* the local of line 401; -1 while unbound
    total_frames,
    frame_idx,
    retry,
    selected_dance,
    candidate_pose,          \* the local of lines 437/439, kept across frames
    pose_sequence,           \* the frames appended so far: count and latest
    result,                  \* what the call returned
    fails,                   \* failed reads of the clip store so far
    frameFails,              \* those among them made for an output frame
    lastRead,                \* outcome of the latest frame's clip read
    nan_count,               \* the local of lines 362-372; -1 while unbound
    sampler,                 \* a DanceMoveSampler under construction
    segment,                 \* the features, score and label of one segment
    features,                \* the lists given to and returned by normalize_features
    scorer,                  \* a RealTimePoseScorer
    feed,                    \* what the scorer's caller supplies in this run
    session,                 \* the score_pose calls made, and since the reset
    last_call,               \* the latest call of a public method, its outcome
    performers,              \* the scorers of two performers
    heap                     \* the deques the scorers of the performers made

samplerVars ==
    <<inp, pc, seg, intensity, current_dance_file, current_dance_duration,
      current_dance_elapsed, current_intensity, frame_number,
      segment_duration, total_frames, frame_idx, retry, selected_dance,
      candidate_pose, pose_sequence, result, fails, frameFails, lastRead,
      nan_count>>

featureVars == <<sampler, segment, features>>
scorerVars == <<scorer, feed, session, last_call, performers, heap>>

\* pose_sequence is only appended to and returned: the model keeps its
\* length and its latest element.
EmptySequence == [len |-> 0, last |-> NoFrame]
Append1(ps, f) == [len |-> ps.len + 1, last |-> f]
\* A returned value: how the function returned ("early": line 238, "ok":
\* line 490, "error": line 494), the list returned, and whether frames had
\* been appended when it returned.
NoResult == [kind |-> "none", frames |-> EmptySequence, partial |-> FALSE]

SongDurations == {3, 10, MaxSong}
FrameRates == {1, 16}
FrameDelays == {0}

\* The segments: np.arange(0, song_duration, 5.0).
NumSegments(song_duration) ==
    (song_duration + SegmentLength - 1) \div SegmentLength
StartTime(i) == SegmentLength * (i - 1)
EndTime(i, song_duration) ==
    Min2(StartTime(i) + SegmentLength, song_duration)

InputsOfDuration(d) ==
    { [cat |-> c, song_duration |-> d, frame_rate |-> fr, frame_delay |-> fd,
       amplitudes |-> a, bpms |-> [i \in 1 .. NumSegments(d) |-> 130],
       low_threshold |-> Fl(R(3, 10)), high_threshold |-> Fl(R(7, 10)),
       weights |-> SamplerInit(Fl(R(6, 10)), Fl(R(4, 10)))] :
        c \in PlainCatalogs, fr \in FrameRates, fd \in FrameDelays,
        a \in [1 .. NumSegments(d) -> {0, 1, MaxAmp}] }
GapInputs ==
    { [cat |-> c, song_duration |-> 2 * SegmentLength, frame_rate |-> 16,
       frame_delay |-> 0, amplitudes |-> <<0, 0>>, bpms |-> <<130, 130>>,
       low_threshold |-> Fl(R(3, 10)), high_threshold |-> Fl(R(7, 10)),
       weights |-> SamplerInit(Fl(R(6, 10)), Fl(R(4, 10)))] :
        c \in GapCatalogs }
Inputs == UNION {InputsOfDuration(d) : d \in SongDurations} \cup GapInputs

Cat == Catalogs[inp.cat]

\* Lines 278-287: the score and the intensity of segment i.
SegmentScore(i) ==
    calculate_intensity_score(inp.weights,
                              NormAmplitudes(inp.amplitudes)[i],
                              NormBpms(inp.bpms)[i])
SegmentIntensity(i) ==
    Classify(SegmentScore(i), inp.low_threshold, inp.high_threshold)

\* A read of the clip store succeeds or fails (the file is missing or
\* unreadable); at most MaxReadFail reads fail in one run.
LoadOutcomes == IF fails < MaxReadFail THEN {TRUE, FALSE} ELSE {TRUE}
Failed(loaded) == IF loaded THEN 0 ELSE 1

SamplerLocals ==
    /\ seg = 0
    /\ intensity = None
    /\ current_dance_file = None
    /\ current_dance_duration = Zero
    /\ current_dance_elapsed = 0
    /\ current_intensity = None
    /\ frame_number = 0
    /\ segment_duration = -1
    /\ total_frames = 0
    /\ frame_idx = 0
    /\ retry = 0
    /\ selected_dance = None
    /\ candidate_pose = UnboundPose
    /\ pose_sequence = EmptySequence
    /\ result = NoResult
    /\ fails = 0
    /\ frameFails = 0
    /\ lastRead = "none"
    /\ nan_count = -1

\* sample_dance_moves_for_song is called.
SamplerInitState ==
    /\ inp \in Inputs
    /\ pc = "start"
    /\ SamplerLocals

\* sample_dance_moves_for_song is not called.
SamplerIdle ==
    /\ inp = None
    /\ pc = "idle"
    /\ SamplerLocals

\* The function returns: its locals are gone.
ReturnWith(kind, frames) ==
    /\ result' = [kind |-> kind, frames |-> frames,
                  partial |-> pose_sequence.len > 0]
    /\ pc' = "done"
    /\ seg' = 0
    /\ intensity' = None
    /\ current_dance_file' = None
    /\ current_dance_duration' = Zero
    /\ current_dance_elapsed' = 0
    /\ current_intensity' = None
    /\ frame_number' = 0
    /\ segment_duration' = -1
    /\ total_frames' = 0
    /\ frame_idx' = 0
    /\ retry' = 0
    /\ selected_dance' = None
    /\ candidate_pose' = UnboundPose
    /\ pose_sequence' = EmptySequence
    /\ lastRead' = "none"
    /\ nan_count' = -1
    /\ UNCHANGED <<inp, fails, frameFails>>
    /\ UNCHANGED <<featureVars, scorerVars>>

\* ------------------------------------ sample_dance_moves_for_song: steps

\* Line 237: `if not intensity_mappings: return []`.
MappingsMissingNever(cat) == FALSE
MappingsMissing(cat) == cat.intensity_mappings = <<>>

\* Lines 492-494: the handler of the function's try block returns [].
OnErrorPartial(ps) == ps
OnError(ps) == EmptySequence

\* Lines 235-275: the intensity table, the listing, the audio, the features.
\* load_audio raises when the file cannot be decoded.
Start ==
    /\ pc = "start"
    /\ IF MappingsMissing(Cat)
       THEN ReturnWith("early", EmptySequence)
       ELSE \E audio_ok \in BOOLEAN :
               IF audio_ok
               THEN /\ pc' = "segment"
                    /\ seg' = 1
                    /\ UNCHANGED <<inp, intensity, current_dance_file,
                                   current_dance_duration,
                                   current_dance_elapsed, current_intensity,
                                   frame_number, segment_duration,
                                   total_frames, frame_idx, retry,
                                   selected_dance, candidate_pose,
                                   pose_sequence, result, fails, frameFails,
                                   lastRead, nan_count, featureVars,
                                   scorerVars>>
               ELSE ReturnWith("error", OnError(pose_sequence))

\* Lines 401-402.
EnterFrames ==
    /\ segment_duration' =
           EndTime(seg, inp.song_duration) - StartTime(seg)
    /\ total_frames' = segment_duration' * inp.frame_rate
    /\ frame_idx' = 0

ExhaustedStrict ==
    RLt(current_dance_duration, R(current_dance_elapsed, 1))
Exhausted ==
    RLe(current_dance_duration, R(current_dance_elapsed, 1))
IntensitySwitchNever(i) == FALSE
IntensitySwitchLate(i) ==
    /\ SegmentIntensity(i) # current_intensity
    /\ current_dance_elapsed > SegmentLength
IntensitySwitch(i) ==
    /\ SegmentIntensity(i) # current_intensity
    /\ current_dance_elapsed > MinDwell

RunsOutNever(loaded) == FALSE

\* Lines 302-325: does the clip run out of frames in this segment?  The
\* clip is read again; segment_duration is still the previous segment's.
RunsOut(loaded) ==
    IF ~loaded \/ segment_duration < 0 THEN FALSE
    ELSE LET num_frames == NumFrames(current_dance_file)
             frames_needed == segment_duration * inp.frame_rate
             current_frame_index == current_dance_elapsed * inp.frame_rate
         IN current_frame_index + frames_needed >= num_frames

\* The decision reads the clip only on its last branch.
ReadsClip(i) ==
    /\ current_dance_file # None
    /\ ~Exhausted
    /\ ~IntensitySwitch(i)

\* Lines 289-325.
NeedNewDance(i, loaded) ==
    IF current_dance_file = None THEN TRUE
    ELSE IF Exhausted THEN TRUE
    ELSE IF IntensitySwitch(i) THEN TRUE
    ELSE RunsOut(loaded)

\* Lines 277-331 for one segment, or line 490 after the last.
Segment ==
    /\ pc = "segment"
    /\ IF seg > NumSegments(inp.song_duration)
       THEN ReturnWith("ok", pose_sequence)
       ELSE \E loaded \in (IF ReadsClip(seg) THEN LoadOutcomes ELSE {TRUE}) :
               /\ intensity' = SegmentIntensity(seg)
               /\ fails' = fails + Failed(loaded)
               /\ IF NeedNewDance(seg, loaded)
                  THEN /\ pc' = "select"
                       /\ current_dance_file' = None
                       /\ retry' = 0
                       /\ UNCHANGED <<segment_duration, total_frames,
                                      frame_idx>>
                  ELSE /\ pc' = "frames"
                       /\ EnterFrames
                       /\ UNCHANGED <<current_dance_file, retry>>
               /\ UNCHANGED <<inp, seg, current_dance_duration,
                              current_dance_elapsed, current_intensity,
                              frame_number, selected_dance, candidate_pose,
                              pose_sequence, result, frameFails, lastRead,
                              nan_count,
                              featureVars, scorerVars>>

\* Lines 360-372: how many of the sampled frames can hold a NaN.
NanCounts(c) ==
    LET sample_frames == Min2(MaxSampleFrames, NumFrames(c))
    IN IF ClipData(c).nan = {} THEN {0}
       ELSE IF ClipData(c).nan = AllFrames(NumFrames(c)) THEN {sample_frames}
       ELSE 0 .. sample_frames

\* Lines 351-372: the frames of a candidate are sampled when its data is
\* there and has a frame axis.
Sampled(c, loaded) == loaded /\ ClipData(c).ndim \in {3, 4}

PassesFilterHalf(c, loaded, count) ==
    /\ loaded
    /\ ClipData(c).ndim \in {3, 4}
    /\ NumFrames(c) > 0
    /\ 10 * count < 5 * Min2(MaxSampleFrames, NumFrames(c))

\* Lines 351-375: the candidate's data is there, has a frame axis and at
\* least one frame (0 frames: the division raises and the candidate is
\* skipped), and nan_count / sample_frames < 0.3.
PassesFilter(c, loaded, count) ==
    /\ loaded
    /\ ClipData(c).ndim \in {3, 4}
    /\ NumFrames(c) > 0
    /\ 10 * count < 3 * Min2(MaxSampleFrames, NumFrames(c))

ActivateKeepIntensity(c, dloaded) ==
    /\ current_dance_file' = c
    /\ current_dance_duration' = get_dance_duration(c, dloaded)
    /\ current_dance_elapsed' = 0
    /\ current_intensity' =
          IF current_intensity = None THEN intensity ELSE current_intensity
ActivateKeepElapsed(c, dloaded) ==
    /\ current_dance_file' = c
    /\ current_dance_duration' = get_dance_duration(c, dloaded)
    /\ current_dance_elapsed' = current_dance_elapsed
    /\ current_intensity' = intensity

\* Lines 376-379 and 396-398.
Activate(c, dloaded) ==
    /\ current_dance_file' = c
    /\ current_dance_duration' = get_dance_duration(c, dloaded)
    /\ current_dance_elapsed' = 0
    /\ current_intensity' = intensity

\* Lines 333-382: one pass of the retry loop.
TryCandidate ==
    /\ pc = "select"
    /\ retry < max_retries
    /\ LET list == ChoiceList(intensity, Cat)
       IN IF list = <<>>
          THEN ReturnWith("error", OnError(pose_sequence))
          ELSE \E k \in DOMAIN list, loaded \in BOOLEAN, dloaded \in BOOLEAN :
                  \E count \in NanCounts(list[k]) :
                     /\ nan_count' = IF Sampled(list[k], loaded)
                                     THEN count ELSE nan_count
                     /\ fails + Failed(loaded) + Failed(dloaded) <= MaxReadFail
                     /\ fails' = fails + Failed(loaded) + Failed(dloaded)
                     /\ IF PassesFilter(list[k], loaded, count)
                        THEN /\ Activate(list[k], dloaded)
                             /\ pc' = "frames"
                             /\ EnterFrames
                             /\ retry' = 0
                             /\ selected_dance' = None
                        ELSE /\ dloaded
                             /\ retry' = retry + 1
                             /\ selected_dance' = list[k]
                             /\ UNCHANGED <<pc, current_dance_file,
                                            current_dance_duration,
                                            current_dance_elapsed,
                                            current_intensity,
                                            segment_duration, total_frames,
                                            frame_idx>>
                     /\ UNCHANGED <<inp, seg, intensity, frame_number,
                                    candidate_pose, pose_sequence, result,
                                    frameFails, lastRead, featureVars,
                                    scorerVars>>

FallbackGivesUp ==
    /\ pc = "select"
    /\ retry = max_retries
    /\ current_dance_file = None
    /\ ReturnWith("error", OnError(pose_sequence))

\* Lines 384-398: no candidate passed.  selected_dance keeps the candidate
\* of the last attempt; nan_count is not read again before it is assigned.
Fallback ==
    /\ pc = "select"
    /\ retry = max_retries
    /\ current_dance_file = None
    /\ LET list == ChoiceList(intensity, Cat)
       IN \E k \in DOMAIN list, dloaded \in LoadOutcomes :
             /\ Activate(list[k], dloaded)
             /\ fails' = fails + Failed(dloaded)
    /\ pc' = "frames"
    /\ EnterFrames
    /\ retry' = 0
    /\ nan_count' = -1
    /\ UNCHANGED <<inp, seg, intensity, frame_number, selected_dance,
                   candidate_pose, pose_sequence, result, frameFails,
                   lastRead, featureVars, scorerVars>>

\* Lines 411-474: the frame index and the pose of one output frame.
\* `loaded` is the outcome of load_keypoint_file for the active clip.
Readable(c, loaded) == c # None /\ loaded /\ NumFrames(c) > 0

RawFrame == current_dance_elapsed * inp.frame_rate + frame_idx

DanceFrameOfPose(c, loaded) ==
    IF ~Readable(c, loaded) THEN RawFrame
    ELSE IF /\ ClipData(c).ndim \in {3, 4}
            /\ (RawFrame % NumFrames(c)) \in ClipData(c).nan
         THEN NearbyClean(c, RawFrame % NumFrames(c)).idx
         ELSE RawFrame % NumFrames(c)

\* Line 434: the index wraps only once the clip's data is at hand.
DanceFrame(c, loaded) ==
    IF Readable(c, loaded) THEN RawFrame % NumFrames(c) ELSE RawFrame

\* Lines 436-439: candidate_pose is assigned for 4-D and 3-D data only.
CandidatePose(c, loaded) ==
    IF Readable(c, loaded) /\ ClipData(c).ndim \in {3, 4}
    THEN FramePose(c, DanceFrame(c, loaded))
    ELSE candidate_pose

\* Lines 415-474.  Reading an unbound candidate_pose raises inside the
\* try block, whose handler leaves pose_data None.
PoseDataKept(c, loaded) ==
    IF ~Readable(c, loaded) THEN DefaultPose
    ELSE IF CandidatePose(c, loaded).kind = "unbound" THEN NoPose
    ELSE IF PoseClean(CandidatePose(c, loaded)) THEN CandidatePose(c, loaded)
    ELSE NearbyClean(c, DanceFrame(c, loaded))
PoseData(c, loaded) ==
    IF ~Readable(c, loaded) THEN NoPose
    ELSE IF CandidatePose(c, loaded).kind = "unbound" THEN NoPose
    ELSE IF PoseClean(CandidatePose(c, loaded)) THEN CandidatePose(c, loaded)
    ELSE NearbyClean(c, DanceFrame(c, loaded))

FrameTimeInSegment ==
    LET t == R(frame_idx, inp.frame_rate)
    IN IF inp.frame_delay > 0 THEN RAdd(t, R(inp.frame_delay, 1)) ELSE t

\* Lines 405-409.
FrameTime ==
    LET t == R(StartTime(seg) * inp.frame_rate + frame_idx, inp.frame_rate)
    IN IF inp.frame_delay > 0 THEN RAdd(t, R(inp.frame_delay, 1)) ELSE t

\* Lines 404-485: one pass of the frame loop.
EmitFrame ==
    /\ pc = "frames"
    /\ frame_idx < total_frames
    /\ \E loaded \in LoadOutcomes :
          /\ fails' = fails + Failed(loaded)
          /\ frameFails' = frameFails + Failed(loaded)
          /\ lastRead' = IF loaded THEN "ok" ELSE "fail"
          /\ candidate_pose' = CandidatePose(current_dance_file, loaded)
          /\ pose_sequence' =
                Append1(pose_sequence,
                        [frame_number |-> frame_number,
                         time |-> FrameTime,
                         dance_file |-> current_dance_file,
                         dance_frame |-> DanceFrame(current_dance_file, loaded),
                         intensity |-> intensity,
                         pose_data |-> PoseData(current_dance_file, loaded)])
    /\ frame_number' = frame_number + 1
    /\ frame_idx' = frame_idx + 1
    /\ UNCHANGED <<inp, pc, seg, intensity, current_dance_file,
                   current_dance_duration, current_dance_elapsed,
                   current_intensity, segment_duration, total_frames, retry,
                   selected_dance, result, nan_count, featureVars,
                   scorerVars>>

\* Lines 487-488, and the loop moves to the next segment.
EndSegment ==
    /\ pc = "frames"
    /\ frame_idx = total_frames
    /\ current_dance_elapsed' = current_dance_elapsed + segment_duration
    /\ seg' = seg + 1
    /\ pc' = "segment"
    /\ UNCHANGED <<inp, intensity, current_dance_file, current_dance_duration,
                   current_intensity, frame_number, segment_duration,
                   total_frames, frame_idx, retry, selected_dance,
                   candidate_pose, pose_sequence, result, fails, frameFails,
                   lastRead, nan_count, featureVars, scorerVars>>

\* Lines 246, 492-494: an exception leaves one of the loop's unguarded
\* statements (a failed allocation while a frame is appended, say).
Raise ==
    /\ pc \in {"segment", "frames"}
    /\ ReturnWith("error", OnError(pose_sequence))

SamplerNext ==
    \/ Start
    \/ Segment
    \/ TryCandidate
    \/ Fallback
    \/ EmitFrame
    \/ EndSegment
    \/ Raise

\* ---------------------------- DanceMoveSampler: weights, features, labels

\* The weights given to the constructor: the integers 1 .. MaxWeight.
MaxWeight == 24
WeightArgs == {R(k, 1) : k \in 1 .. MaxWeight}
\* The tempo of a segment, in and out of the 60-200 range.
BpmValues == {40, BpmLo, 130, BpmHi, 230}
\* (low_threshold, high_threshold), low <= high.
ThresholdPairs ==
    { <<R(1, 4), R(3, 4)>>, <<Half, Half>>, <<Fl(R(3, 10)), Fl(R(7, 10))>> }
\* The segments of the song whose features are normalised.
FeatureSegments == {1, 2}

NoSampler ==
    [stage |-> "idle", args |-> <<Zero, Zero>>,
     amplitude_weight |-> Zero, bpm_weight |-> Zero]
NoSegment ==
    [norm_amplitude |-> Zero, norm_bpm |-> Zero, low_threshold |-> Zero,
     high_threshold |-> Zero, score |-> Zero, intensity |-> None]

\* normalize_features is not called.
NoFeatures ==
    [stage |-> "idle", amplitudes |-> <<>>, bpms |-> <<>>,
     norm_amplitudes |-> <<>>, norm_bpms |-> <<>>]

FeatureIdle ==
    /\ sampler = NoSampler
    /\ segment = NoSegment
    /\ features = NoFeatures

\* Lines 44-45: __init__ first stores its arguments.
FeatureInitState ==
    /\ sampler \in {[stage |-> "new", args |-> <<a, b>>,
                     amplitude_weight |-> a, bpm_weight |-> b] :
                        a \in WeightArgs, b \in WeightArgs}
    /\ segment = NoSegment
    /\ features = NoFeatures

\* Lines 48-51: __init__ normalises the weights.
Construct ==
    /\ sampler.stage = "new"
    /\ sampler' =
          [stage |-> "built", args |-> sampler.args,
           amplitude_weight |->
               SamplerInit(sampler.args[1], sampler.args[2]).amplitude_weight,
           bpm_weight |->
               SamplerInit(sampler.args[1], sampler.args[2]).bpm_weight]
    /\ UNCHANGED <<segment, features, samplerVars, scorerVars>>

\* Lines 275-287: the features of a song are normalised, and segment i is
\* scored and classified.
ClassifySegment ==
    /\ sampler.stage = "built"
    /\ segment = NoSegment
    /\ \E amplitudes \in [FeatureSegments -> {0, 1, MaxAmp}],
          bpm \in BpmValues, i \in FeatureSegments, th \in ThresholdPairs :
          LET norm_amplitude == NormAmplitudes(amplitudes)[i]
              norm_bpm == NormBpms([k \in FeatureSegments |-> bpm])[i]
              score == calculate_intensity_score(sampler, norm_amplitude,
                                                 norm_bpm)
          IN segment' =
                [norm_amplitude |-> norm_amplitude, norm_bpm |-> norm_bpm,
                 low_threshold |-> th[1], high_threshold |-> th[2],
                 score |-> score,
                 intensity |-> Classify(score, th[1], th[2])]
    /\ UNCHANGED <<sampler, features, samplerVars, scorerVars>>

FeatureNext ==
    \/ Construct
    \/ ClassifySegment

\* ------------------------------------- DanceMoveSampler.normalize_features

\* The raw amplitudes and tempos of the segments of a song of up to
\* three segments.
AmplitudeValues == {0, 1, MaxAmp, 5}
TempoValues == BpmValues \cup {260}
SegmentCounts == 0 .. 3
FeatureLists ==
    UNION {[amplitudes : [1 .. n -> AmplitudeValues],
            bpms : [1 .. n -> TempoValues]] : n \in SegmentCounts}

\* normalize_features is called with the two lists.
NormalizeInitState ==
    /\ features \in {[stage |-> "given", amplitudes |-> f.amplitudes,
                      bpms |-> f.bpms, norm_amplitudes |-> <<>>,
                      norm_bpms |-> <<>>] : f \in FeatureLists}
    /\ sampler = NoSampler
    /\ segment = NoSegment

\* normalize_features, lines 105-124.
normalize_features ==
    /\ features.stage = "given"
    /\ features' = [features EXCEPT
                       !.stage = "normalized",
                       !.norm_amplitudes = NormAmplitudes(features.amplitudes),
                       !.norm_bpms = NormBpms(features.bpms)]
    /\ UNCHANGED <<sampler, segment, samplerVars, scorerVars>>

\* -------------------------------------------------- RealTimePoseScorer

(* A pose is kept as one coordinate of the normalised pose (the value      *)
(* normalize_pose returns), a timestamp as a rational number of seconds.   *)
(* The arithmetic of the scorer is exact.                                   *)

\* Longest history buffer (max_history) that overflows in a run.
MaxHistory == 3
\* real_time_pose_scorer.py:41 the default max_history
DefaultHistory == 100
\* real_time_pose_scorer.py:68 deque(maxlen=5)
SmoothingWindow == 5
\* real_time_pose_scorer.py:382 the recent scores averaged
RecentWindow == 30
\* real_time_pose_scorer.py:83 default reference timestamps i / 60.0
ReferenceRate == 60

\* The (spatial, timing, rhythm) weights given to the constructor: the
\* defaults and some other positive triples.
DefaultWeights == <<R(2, 5), R(3, 10), R(3, 10)>>
ScorerWeights ==
    { DefaultWeights, <<One, One, One>>,
      <<R(2, 1), R(2, 1), R(2, 1)>>, <<R(3, 1), One, One>>,
      <<R(1, 10), R(1, 10), R(1, 10)>> }
\* smoothing_factor, line 40.
DefaultSmoothing == R(3, 10)
\* Lengths of the reference dances loaded (default timestamps i / 60.0).
ReferenceLengths == {0, 1, 2}
\* A component score depends on the poses and timestamps supplied; it
\* ranges over the end points of [0, 1].
ScoreValues == {Zero, One}

\* The arguments of load_reference_dance: the number of poses and the
\* timestamps, if given.
DefaultReferences ==
    {[poses |-> n, given |-> FALSE, timestamps |-> <<>>] :
        n \in ReferenceLengths}
TimedReferences ==
    { [poses |-> 3, given |-> TRUE, timestamps |-> <<Zero, One, R(2, 1)>>],
      [poses |-> 2, given |-> TRUE, timestamps |-> <<Zero, Zero>>],
      [poses |-> 2, given |-> TRUE, timestamps |-> <<>>] }

(* What the caller supplies in a run: the number of score_pose calls it    *)
(* makes, their timestamps (none: the k-th call is made at second k) and   *)
(* poses, the references it loads, and the component scores its poses can  *)
(* earn where the code computes them from the poses and timestamps.        *)
ScoreFeed ==
    [calls |-> MaxHistory + 1, timestamps |-> {}, poses |-> {Zero},
     references |-> DefaultReferences, scores |-> ScoreValues]
AlignmentFeed ==
    [calls |-> 3, timestamps |-> {R(-3, 2), Zero, Half, R(5, 2)},
     poses |-> {Zero, One},
     references |-> DefaultReferences \cup TimedReferences,
     scores |-> {One}]
WindowFeed ==
    [calls |-> SmoothingWindow + 1, timestamps |-> {},
     poses |-> {Zero, One}, references |-> {}, scores |-> {One}]
LongFeed ==
    [calls |-> RecentWindow + 2, timestamps |-> {}, poses |-> {Zero},
     references |-> {[poses |-> 0, given |-> FALSE, timestamps |-> <<>>]},
     scores |-> {One}]
NoFeed ==
    [calls |-> 0, timestamps |-> {}, poses |-> {}, references |-> {},
     scores |-> {}]

\* start_time is None.
NoTime == <<>>

\* real_time_pose_scorer.py:39 alpha, the distance penalty factor
DefaultAlpha == 2

\* __init__, lines 53-70.
ScorerInit(spatial_weight, timing_weight, rhythm_weight, smoothing_factor, max_history) ==
    [spatial_weight |-> spatial_weight,
     timing_weight |-> timing_weight,
     rhythm_weight |-> rhythm_weight,
     alpha |-> DefaultAlpha,
     smoothing_factor |-> smoothing_factor,
     max_history |-> max_history,
     user_poses |-> <<>>,
     user_timestamps |-> <<>>,
     reference_poses |-> 0,
     reference_timestamps |-> <<>>,
     pose_scores |-> <<>>,
     pose_history |-> <<>>,
     start_time |-> NoTime,
     current_ref_index |-> 0]

NoScorer == ScorerInit(Zero, Zero, Zero, Zero, 0)
\* No score_pose call was made: `calls` counts them, `first` is the number
\* of the first call since the scorer was created or reset, `anchor` its
\* timestamp, `smoothed` the pose smooth_pose returned last and `samples`
\* the samples score_pose returned since then.
NoSession ==
    [calls |-> 0, first |-> 1, anchor |-> NoTime, smoothed |-> NoTime,
     samples |-> <<>>]
NoCall == [op |-> None]
\* The deques a constructor makes (lines 61, 62, 65, 68), and the object
\* the constructor call number n makes as its k-th deque: each deque(...)
\* is a new object.
Performers == {"A", "B"}
Deques == 1 .. 4
AllocateShared(n, k) == k
Allocate(n, k) == Cardinality(Deques) * (n - 1) + k
Addresses == {Allocate(n, k) : n \in 1 .. Cardinality(Performers), k \in Deques}
\* A scorer object: its deque attributes refer to objects of the heap.
\* No scorer was made for a performer.
NoObject ==
    [NoScorer EXCEPT !.user_poses = 0, !.user_timestamps = 0,
                     !.pose_scores = 0, !.pose_history = 0]
NoPerformers == [n \in Performers |-> NoObject]
NoHeap == [a \in Addresses |-> <<>>]

\* No scorer is in use.
ScorerUnused ==
    /\ scorer = NoScorer
    /\ session = NoSession
    /\ last_call = NoCall
\* No pair of scorers is in use.
PairIdle ==
    /\ performers = NoPerformers
    /\ heap = NoHeap
ScorerIdle ==
    /\ ScorerUnused
    /\ feed = NoFeed
    /\ PairIdle

ScorerInitState ==
    /\ \/ /\ feed = ScoreFeed
          /\ scorer \in {ScorerInit(w[1], w[2], w[3], DefaultSmoothing,
                                    MaxHistory) : w \in ScorerWeights}
       \/ /\ feed \in {AlignmentFeed, WindowFeed}
          /\ scorer = ScorerInit(DefaultWeights[1], DefaultWeights[2],
                                 DefaultWeights[3], DefaultSmoothing,
                                 MaxHistory)
       \/ /\ feed = LongFeed
          /\ scorer = ScorerInit(DefaultWeights[1], DefaultWeights[2],
                                 DefaultWeights[3], DefaultSmoothing,
                                 DefaultHistory)
    /\ session = NoSession
    /\ last_call = NoCall
    /\ PairIdle

PushSeqUnbounded(q, x, maxlen) == Append(q, x)
PushSeqKeepOldest(q, x, maxlen) ==
    IF Len(q) < maxlen THEN Append(q, x) ELSE q
\* deque(maxlen).append, lines 61-68: the oldest entry leaves a full deque.
PushSeq(q, x, maxlen) ==
    IF Len(q) < maxlen THEN Append(q, x) ELSE Append(Tail(q), x)

\* load_reference_dance, lines 72-87.
DefaultTimestamps(n) == [i \in 1 .. n |-> Norm(R(i - 1, ReferenceRate))]
load_reference_dance ==
    /\ scorer # NoScorer
    /\ \E reference \in feed.references :
          scorer' =
             [scorer EXCEPT
                !.reference_poses = reference.poses,
                !.reference_timestamps =
                    IF reference.given THEN reference.timestamps
                    ELSE DefaultTimestamps(reference.poses)]
    /\ last_call' = [op |-> "load_reference_dance"]
    /\ UNCHANGED <<feed, session, performers, heap, samplerVars,
                   featureVars>>

SmoothFromOldest(s, pose) ==
    IF s.pose_history = <<>> THEN pose
    ELSE Norm(RAdd(RMul(s.smoothing_factor, pose),
                   RMul(RSub(One, s.smoothing_factor),
                        s.pose_history[1].pose)))

\* smooth_pose, lines 134-155: the pose it returns.
smooth_pose(s, pose) ==
    IF s.pose_history = <<>> THEN pose
    ELSE LET prev_pose == s.pose_history[Len(s.pose_history)].pose
         IN Norm(RAdd(RMul(s.smoothing_factor, pose),
                      RMul(RSub(One, s.smoothing_factor), prev_pose)))

RModTruncated(x, d) ==
    LET q == Norm(RDiv(x, d))
        truncated == IF q[1] < 0 THEN 0 - ((0 - q[1]) \div q[2])
                     ELSE q[1] \div q[2]
    IN Norm(RSub(x, RMul(d, R(truncated, 1))))
\* Python's float % for a positive divisor: the result is in [0, d).
RFloor(x) == x[1] \div x[2]
RMod(x, d) == Norm(RSub(x, RMul(d, R(RFloor(Norm(RDiv(x, d))), 1))))
\* int(): truncation towards zero.
RTrunc(x) == IF x[1] < 0 THEN 0 - ((0 - x[1]) \div x[2]) ELSE x[1] \div x[2]

\* ref_duration, line 241.
ReferenceDuration(s) ==
    IF s.reference_timestamps # <<>>
    THEN s.reference_timestamps[Len(s.reference_timestamps)]
    ELSE One

\* find_best_reference_match, lines 222-251: the start time it leaves,
\* whether it raises (the modulo of line 244 by a duration of 0) and the
\* index it returns.
find_best_reference_match(s, timestamp) ==
    IF s.reference_poses = 0
    THEN [start_time |-> s.start_time, raises |-> FALSE, ref_index |-> 0,
          matched |-> FALSE]
    ELSE LET start_time ==
                 IF s.start_time = NoTime THEN timestamp ELSE s.start_time
             elapsed_time == Norm(RSub(timestamp, start_time))
             ref_duration == ReferenceDuration(s)
         IN IF ref_duration = Zero
            THEN [start_time |-> start_time, raises |-> TRUE,
                  ref_index |-> 0, matched |-> FALSE]
            ELSE LET progress ==
                         RDiv(RMod(elapsed_time, ref_duration), ref_duration)
                     ref_index ==
                         RTrunc(RMul(progress, R(s.reference_poses, 1)))
                 IN [start_time |-> start_time, raises |-> FALSE,
                     ref_index |-> Min2(ref_index, s.reference_poses - 1),
                     matched |-> TRUE]

\* compute_frame_score of the distance to the matched reference pose,
\* lines 249 and 263; of an infinite distance when there is no reference.
SpatialScores(s) == IF s.reference_poses = 0 THEN {Zero} ELSE feed.scores

RecentScoresAll(s) == s.pose_scores

RECURSIVE SumSeq(_)
SumSeq(q) ==
    IF q = <<>> THEN Zero ELSE Norm(RAdd(Head(q), SumSeq(Tail(q))))
\* np.mean
Mean(q) == Norm(RMul(SumSeq(q), R(1, Len(q))))
\* np.std squared
Variance(q) ==
    LET mean == Mean(q)
    IN Mean([i \in 1 .. Len(q) |->
                RMul(RSub(q[i], mean), RSub(q[i], mean))])

\* compute_timing_score, lines 265-286, of the timestamps kept.  The
\* deviation of the differences is compared with 1/30 s; a deviation
\* strictly between 0 and 1/30 gives a score strictly between 0 and 1.
TimingScores(user_timestamps) ==
    IF Len(user_timestamps) < 2 THEN {Half}
    ELSE LET time_diffs ==
                 [i \in 1 .. Len(user_timestamps) - 1 |->
                     RSub(user_timestamps[i + 1].timestamp,
                          user_timestamps[i].timestamp)]
             variance == Variance(time_diffs)
         IN IF variance = Zero THEN {One}
            ELSE IF RLe(R(1, 900), variance) THEN {Zero}
            ELSE {Half}
RhythmScoresFromTwo(user_poses) ==
    IF Len(user_poses) < 2 THEN {Half} ELSE feed.scores
\* compute_rhythm_score, lines 288-326, of the poses kept.
RhythmScores(user_poses) ==
    IF Len(user_poses) < 3 THEN {Half} ELSE feed.scores

\* The timestamps the caller passes to its next call of score_pose.
CallTimes ==
    IF feed.timestamps = {} THEN {R(session.calls + 1, 1)}
    ELSE feed.timestamps

\* score_pose, lines 328-369, on the scorer s: the scorer it leaves, whether
\* it raised, the sample it returned.  `call` numbers the calls, so that
\* the entry of a buffer names the call that appended it.
ScorePoseOutcomes(s, call, user_pose, timestamp) ==
    LET smoothed_pose == smooth_pose(s, user_pose)
        user_poses ==
            PushSeq(s.user_poses, [call |-> call, pose |-> smoothed_pose],
                    s.max_history)
        user_timestamps ==
            PushSeq(s.user_timestamps,
                    [call |-> call, timestamp |-> timestamp], s.max_history)
        match == find_best_reference_match(s, timestamp)
        buffered ==
            [s EXCEPT
               !.pose_history =
                   PushSeq(@, [call |-> call, pose |-> smoothed_pose],
                           SmoothingWindow),
               !.user_poses = user_poses,
               !.user_timestamps = user_timestamps,
               !.start_time = match.start_time]
    IN IF match.raises
       THEN {[scorer |-> buffered, raised |-> TRUE,
              pose_score |-> [call |-> call]]}
       ELSE {[scorer |->
                 [buffered EXCEPT
                    !.pose_scores =
                        PushSeq(@, [call |-> call,
                                    spatial_score |-> spatial_score,
                                    timing_score |-> timing_score,
                                    rhythm_score |-> rhythm_score,
                                    frame_score |-> spatial_score,
                                    timestamp |-> timestamp],
                                s.max_history)],
              raised |-> FALSE,
              pose_score |-> [call |-> call,
                              spatial_score |-> spatial_score,
                              timing_score |-> timing_score,
                              rhythm_score |-> rhythm_score,
                              frame_score |-> spatial_score,
                              timestamp |-> timestamp]] :
                spatial_score \in SpatialScores(s),
                timing_score \in TimingScores(user_timestamps),
                rhythm_score \in RhythmScores(user_poses)}

\* A call of score_pose on the scorer.
score_pose ==
    /\ scorer # NoScorer
    /\ session.calls < feed.calls
    /\ \E user_pose \in feed.poses, timestamp \in CallTimes :
          LET call == session.calls + 1
              match == find_best_reference_match(scorer, timestamp)
              smoothed_pose == smooth_pose(scorer, user_pose)
              anchor ==
                  IF session.first = call THEN timestamp ELSE session.anchor
              entered ==
                  [op |-> "score_pose", call |-> call,
                   previous |-> session.smoothed,
                   user_pose |-> user_pose, timestamp |-> timestamp,
                   smoothed_pose |-> smoothed_pose,
                   before |-> scorer,
                   first |-> session.first = call,
                   matched |-> match.matched,
                   ref_index |-> match.ref_index]
          IN \E out \in ScorePoseOutcomes(scorer, call, user_pose,
                                          timestamp) :
                /\ scorer' = out.scorer
                /\ last_call' =
                      IF out.raised
                      THEN [entered EXCEPT !.op = "score_pose raised"]
                      ELSE entered
                /\ session' =
                      [session EXCEPT
                         !.calls = call,
                         !.anchor = anchor,
                         !.smoothed = smoothed_pose,
                         !.samples =
                             IF out.raised THEN @
                             ELSE Append(@, out.pose_score)]
    /\ UNCHANGED <<feed, performers, heap, samplerVars, featureVars>>

ResetAll ==
    /\ scorer # NoScorer
    /\ scorer' = ScorerInit(scorer.spatial_weight, scorer.timing_weight,
                            scorer.rhythm_weight, scorer.smoothing_factor,
                            scorer.max_history)
    /\ last_call' = [op |-> "reset"]
    /\ session' = [session EXCEPT !.first = session.calls + 1,
                                  !.anchor = NoTime,
                                  !.smoothed = NoTime,
                                  !.samples = <<>>]
    /\ UNCHANGED <<feed, performers, heap, samplerVars, featureVars>>

\* reset, lines 457-465.
reset ==
    /\ scorer # NoScorer
    /\ scorer' = [scorer EXCEPT !.user_poses = <<>>,
                                !.user_timestamps = <<>>,
                                !.pose_scores = <<>>,
                                !.pose_history = <<>>,
                                !.start_time = NoTime,
                                !.current_ref_index = 0]
    /\ last_call' = [op |-> "reset"]
    /\ session' = [session EXCEPT !.first = session.calls + 1,
                                  !.anchor = NoTime,
                                  !.smoothed = NoTime,
                                  !.samples = <<>>]
    /\ UNCHANGED <<feed, performers, heap, samplerVars, featureVars>>

\* The weighted sum of lines 388-390 and 407-409.
WeightedSum(s, spatial_avg, timing_avg, rhythm_avg) ==
    Norm(RAdd(RAdd(RMul(s.spatial_weight, spatial_avg),
                   RMul(s.timing_weight, timing_avg)),
              RMul(s.rhythm_weight, rhythm_avg)))
Percent(x) == Norm(RMul(x, R(100, 1)))
\* The mean of one field of the samples.
SpatialMean(scores) ==
    Mean([i \in 1 .. Len(scores) |-> scores[i].spatial_score])
TimingMean(scores) ==
    Mean([i \in 1 .. Len(scores) |-> scores[i].timing_score])
RhythmMean(scores) ==
    Mean([i \in 1 .. Len(scores) |-> scores[i].rhythm_score])
FrameMean(scores) ==
    Mean([i \in 1 .. Len(scores) |-> scores[i].frame_score])

\* recent_scores, line 382.
RecentScores(s) ==
    LET n == Len(s.pose_scores)
    IN SubSeq(s.pose_scores, n - Min2(RecentWindow, n) + 1, n)

\* get_current_score, lines 371-392.
get_current_score(s) ==
    IF s.pose_scores = <<>> THEN Zero
    ELSE LET recent_scores == RecentScores(s)
             spatial_avg == SpatialMean(recent_scores)
             timing_avg == TimingMean(recent_scores)
             rhythm_avg == RhythmMean(recent_scores)
             overall == WeightedSum(s, spatial_avg, timing_avg, rhythm_avg)
         IN Percent(overall)

\* _generate_feedback, lines 431-455.  A string built by concatenation is
\* the sequence of its pieces.
Join(feedback_parts) ==
    [i \in 1 .. 2 * Len(feedback_parts) - 1 |->
        IF i % 2 = 1 THEN feedback_parts[(i + 1) \div 2] ELSE " and "]
_generate_feedback(overall, spatial, timing, rhythm) ==
    IF RLe(R(90, 1), overall)
    THEN <<"Outstanding performance! Perfect execution!">>
    ELSE IF RLe(R(80, 1), overall)
    THEN <<"Excellent dancing! Great job!">>
    ELSE IF RLe(R(70, 1), overall)
    THEN <<"Good performance! Keep practicing!">>
    ELSE IF RLe(R(60, 1), overall)
    THEN <<"Nice effort! Focus on improvement areas below.">>
    ELSE LET feedback_parts ==
                 (IF RLt(spatial, R(60, 1))
                  THEN <<"improve pose accuracy">> ELSE <<>>)
                 \o (IF RLt(timing, R(60, 1))
                     THEN <<"work on timing consistency">> ELSE <<>>)
                 \o (IF RLt(rhythm, R(60, 1))
                     THEN <<"focus on rhythm and flow">> ELSE <<>>)
         IN IF feedback_parts # <<>>
            THEN <<"Try to ">> \o Join(feedback_parts) \o <<".">>
            ELSE <<"Keep practicing to improve your performance!">>

\* get_final_score, lines 394-429.
get_final_score(s) ==
    IF s.pose_scores = <<>>
    THEN [overall_score |-> Zero, spatial_score |-> Zero,
          timing_score |-> Zero, rhythm_score |-> Zero, total_poses |-> 0,
          alignment_quality |-> Zero, feedback |-> <<"No poses scored">>]
    ELSE LET all_scores == s.pose_scores
             spatial_avg == Percent(SpatialMean(all_scores))
             timing_avg == Percent(TimingMean(all_scores))
             rhythm_avg == Percent(RhythmMean(all_scores))
             overall == WeightedSum(s, spatial_avg, timing_avg, rhythm_avg)
         IN [overall_score |-> overall,
             spatial_score |-> spatial_avg,
             timing_score |-> timing_avg,
             rhythm_score |-> rhythm_avg,
             total_poses |-> Len(all_scores),
             alignment_quality |-> Percent(FrameMean(all_scores)),
             feedback |->
                 _generate_feedback(overall, spatial_avg, timing_avg,
                                   rhythm_avg)]

ScorerNext ==
    \/ load_reference_dance
    \/ score_pose
    \/ reset

\* ---------------------------------------------- two RealTimePoseScorers

\* What the callers of the two scorers supply.
PairFeed ==
    [calls |-> MaxHistory + 1, timestamps |-> {}, poses |-> {Zero, One},
     references |->
         {[poses |-> n, given |-> FALSE, timestamps |-> <<>>] : n \in {0, 2}},
     scores |-> {One}]

PairInitState ==
    /\ feed = PairFeed
    /\ ScorerUnused
    /\ PairIdle

Created(n) == performers[n] # NoObject
\* The scorer of performer n as its methods see it: each deque attribute
\* read through the reference it holds.
Deref(n) ==
    [performers[n] EXCEPT !.user_poses = heap[@],
                          !.user_timestamps = heap[@],
                          !.pose_scores = heap[@],
                          !.pose_history = heap[@]]
\* The heap after the deques of the object o were mutated (append, clear)
\* to the contents they have in s.
Mutated(o, s) ==
    [a \in Addresses |->
        IF a = o.user_poses THEN s.user_poses
        ELSE IF a = o.user_timestamps THEN s.user_timestamps
        ELSE IF a = o.pose_scores THEN s.pose_scores
        ELSE IF a = o.pose_history THEN s.pose_history
        ELSE heap[a]]

\* All that the methods of performer n's scorer can observe of it.
Observed(n) ==
    IF Created(n)
    THEN [state |-> Deref(n), current_score |-> get_current_score(Deref(n)),
          final_score |-> get_final_score(Deref(n))]
    ELSE [state |-> NoObject, current_score |-> Zero,
          final_score |-> get_final_score(NoScorer)]
\* A call on the scorer of performer n: last_call keeps what could be
\* observed of each scorer when the call was made.
CallOn(op, n) ==
    [op |-> op, performer |-> n,
     observed |-> [m \in Performers |-> Observed(m)]]

\* create_pose_scorer, lines 468-484: __init__ and load_reference_dance.
create_pose_scorer(n) ==
    /\ ~Created(n)
    /\ \E reference \in feed.references :
          LET made == 1 + Cardinality({m \in Performers : Created(m)})
              fresh == ScorerInit(DefaultWeights[1], DefaultWeights[2],
                                  DefaultWeights[3], DefaultSmoothing,
                                  MaxHistory)
              object ==
                  [fresh EXCEPT
                     !.user_poses = Allocate(made, 1),
                     !.user_timestamps = Allocate(made, 2),
                     !.pose_scores = Allocate(made, 3),
                     !.pose_history = Allocate(made, 4),
                     !.reference_poses = reference.poses,
                     !.reference_timestamps =
                         DefaultTimestamps(reference.poses)]
          IN /\ performers' = [performers EXCEPT ![n] = object]
             /\ heap' = Mutated(object, fresh)
    /\ last_call' = CallOn("create_pose_scorer", n)
    /\ UNCHANGED <<scorer, feed, session, samplerVars, featureVars>>

\* score_pose on the scorer of performer n.
ScorePoseOf(n) ==
    /\ Created(n)
    /\ session.calls < feed.calls
    /\ \E user_pose \in feed.poses, timestamp \in CallTimes :
          \E out \in ScorePoseOutcomes(Deref(n), session.calls + 1,
                                       user_pose, timestamp) :
             /\ heap' = Mutated(performers[n], out.scorer)
             /\ performers' =
                   [performers EXCEPT
                      ![n].start_time = out.scorer.start_time]
    /\ session' = [session EXCEPT !.calls = @ + 1]
    /\ last_call' = CallOn("score_pose", n)
    /\ UNCHANGED <<scorer, feed, samplerVars, featureVars>>

\* reset on the scorer of performer n, lines 457-464.
ResetOf(n) ==
    /\ Created(n)
    /\ heap' = Mutated(performers[n],
                       [user_poses |-> <<>>, user_timestamps |-> <<>>,
                        pose_scores |-> <<>>, pose_history |-> <<>>])
    /\ performers' = [performers EXCEPT ![n].start_time = NoTime,
                                        ![n].current_ref_index = 0]
    /\ last_call' = CallOn("reset", n)
    /\ UNCHANGED <<scorer, feed, session, samplerVars, featureVars>>

\* get_current_score and get_final_score on the scorer of performer n.
QueryOf(n) ==
    /\ Created(n)
    /\ last_call' = CallOn("get_final_score", n)
    /\ UNCHANGED <<performers, heap, scorer, feed, session, samplerVars,
                   featureVars>>

PairNext ==
    \E n \in Performers :
       \/ create_pose_scorer(n)
       \/ ScorePoseOf(n)
       \/ ResetOf(n)
       \/ QueryOf(n)

\* ------------------------------------------------------ specifications

vars == <<samplerVars, featureVars, scorerVars>>

\* A run of sample_dance_moves_for_song.
Init == SamplerInitState /\ FeatureIdle /\ ScorerIdle
Next == SamplerNext
Spec == Init /\ [][Next]_vars

\* The construction of a sampler and the classification of segments.
FeatureInit == FeatureInitState /\ SamplerIdle /\ ScorerIdle
FeatureSpec == FeatureInit /\ [][FeatureNext]_vars

\* A call of normalize_features.
NormalizeInit == NormalizeInitState /\ SamplerIdle /\ ScorerIdle
NormalizeSpec == NormalizeInit /\ [][normalize_features]_vars

\* A scoring session.
ScorerSpecInit == ScorerInitState /\ SamplerIdle /\ FeatureIdle
ScorerSpec == ScorerSpecInit /\ [][ScorerNext]_vars

\* The scoring sessions of two performers.
PairInit == PairInitState /\ SamplerIdle /\ FeatureIdle
PairSpec == PairInit /\ [][PairNext]_vars

\* ------------------------------------------------- properties, sampler

Last == pose_sequence.last
\* The frames a complete run emits: int(segment_duration * frame_rate) per
\* segment.
ExpectedFrames ==
    LET RECURSIVE Sum(_)
        Sum(i) == IF i = 0 THEN 0
                  ELSE Sum(i - 1)
                       + (EndTime(i, inp.song_duration) - StartTime(i))
                         * inp.frame_rate
    IN Sum(NumSegments(inp.song_duration))

\* A step of Segment that decides for a segment (it does not return).
DecisionStep == pc = "segment" /\ pc' \in {"select", "frames"}
\* A step of EmitFrame.
FrameStep == pc = "frames" /\ pc' = "frames" /\ frame_idx' = frame_idx + 1

\* The frames this segment will emit, and the frames the clip has left.
SegmentBudget(i) ==
    (EndTime(i, inp.song_duration) - StartTime(i)) * inp.frame_rate
RemainingFrames ==
    NumFrames(current_dance_file) - current_dance_elapsed * inp.frame_rate

\* C1: clip continuity.  At the decision of a segment with an active clip,
\* if elapsed < duration, not (intensity differs and elapsed > 2.0 s), and
\* the clip's remaining frames cover the segment's frame budget, the clip
\* stays the active clip and elapsed is not reset.
C1_ClipContinuity ==
    [][(/\ DecisionStep
        /\ current_dance_file # None
        /\ ~Exhausted
        /\ ~(SegmentIntensity(seg) # current_intensity
             /\ current_dance_elapsed > MinDwell)
        /\ RemainingFrames >= SegmentBudget(seg))
       => (/\ pc' = "frames"
           /\ current_dance_file' = current_dance_file
           /\ current_dance_elapsed' = current_dance_elapsed)]_vars

\* C2: every emitted frame's dance_frame lies in [0, frameCount) of its
\* clip, whatever the outcome of reading the clip for that frame.
C2_FrameIndexInRange ==
    (pose_sequence.len > 0 /\ NumFrames(Last.dance_file) > 0)
        => (Last.dance_frame >= 0
            /\ Last.dance_frame < NumFrames(Last.dance_file))

\* C3: every emitted frame whose clip data could be read carries a pose.
C3_NoBlankFrame ==
    (pose_sequence.len > 0 /\ lastRead = "ok") => Last.pose_data # NoPose

\* C4: the call returns the complete frame sequence or the empty one, and
\* the empty one whenever a failure aborted the run.
C4_AllOrNothing ==
    pc = "done" =>
        /\ result.frames.len \in {0, ExpectedFrames}
        /\ result.kind = "error" => result.frames = EmptySequence
        /\ result.kind = "ok" => result.frames.len = ExpectedFrames
C4_AbortedMidRun ==
    /\ pc = "done"
    /\ result.kind = "error"
    /\ result.partial
    /\ result.frames = EmptySequence

\* C5: a failed clip read while resolving a frame nulls that frame's pose
\* only: the frame is appended with its frame number, the call goes on, and
\* a run that returns normally has emitted every frame.
C5_ReadFailureStep ==
    (FrameStep /\ lastRead' = "fail")
        => /\ pose_sequence'.len = pose_sequence.len + 1
           /\ pose_sequence'.last.pose_data = NoPose
           /\ pose_sequence'.last.frame_number = frame_number
           /\ frame_number' = frame_number + 1
           /\ result' = NoResult
C5_ReadFailureDegrades ==
    /\ [][C5_ReadFailureStep]_vars
    /\ [](result.kind = "ok" => result.frames.len = ExpectedFrames)
C5_CompletedDespiteFailure ==
    /\ pc = "done"
    /\ result.kind = "ok"
    /\ frameFails > 0
    /\ result.frames.len = ExpectedFrames
    /\ result.frames.last.pose_data # NoPose

\* C6: with an empty intensity table or an empty clip listing no frame is
\* emitted and the call returns the empty sequence; no frame is emitted
\* without a selected clip.
C6_EmptyCatalogNoFrames ==
    /\ (Cat.intensity_mappings = <<>> \/ Cat.available_dances = <<>>)
          => /\ pose_sequence.len = 0
             /\ pc = "done" => result.frames = EmptySequence
    /\ pose_sequence.len > 0 => Last.dance_file # None
    /\ pc = "frames" => current_dance_file # None
C6_EmptyTableReturned ==
    /\ pc = "done"
    /\ Cat.intensity_mappings = <<>>
    /\ Cat.available_dances # <<>>
    /\ result.kind = "early"
    /\ result.frames = EmptySequence

\* ------------------------------------ properties, weights and labels

Built == sampler.stage = "built"
Scored == segment # NoSegment

\* C7: with low <= high, a segment is Low if its score <= low, else High if
\* its score >= high, else Medium; a score equal to low is Low, a score
\* equal to high (low < high) is High, a score strictly between is Medium.
C7_ThresholdLabels ==
    Scored =>
        /\ RLe(segment.low_threshold, segment.high_threshold)
        /\ RLe(segment.score, segment.low_threshold)
              => segment.intensity = LOW
        /\ (RLt(segment.low_threshold, segment.score)
            /\ RLe(segment.high_threshold, segment.score))
              => segment.intensity = HIGH
        /\ (RLt(segment.low_threshold, segment.score)
            /\ RLt(segment.score, segment.high_threshold))
              => segment.intensity = MEDIUM
C7_ScoreOnHighThreshold ==
    /\ Scored
    /\ RLt(segment.low_threshold, segment.high_threshold)
    /\ segment.score = segment.high_threshold
    /\ segment.intensity = HIGH

\* The unit roundoff: a rounded result r of an exact value x has
\* |r - x| <= UnitRoundoff * |x|.
UnitRoundoff == R(1, Pow2(Precision))
Within(x, y, k) == RLe(RAbs(RSub(x, y)), RMul(R(k, 1), UnitRoundoff))
WeightSum == RAdd(sampler.amplitude_weight, sampler.bpm_weight)
ArgSum == RAdd(sampler.args[1], sampler.args[2])

C9_ScorerWeightsSumToOne ==
    scorer # NoScorer =>
        REq(RAdd(RAdd(scorer.spatial_weight, scorer.timing_weight),
                 scorer.rhythm_weight), One)

\* C10: in every state of a scoring session get_current_score returns a
\* value in [0, 100].
C10_CurrentScoreInRange ==
    scorer # NoScorer =>
        /\ RLe(Zero, get_current_score(scorer))
        /\ RLe(get_current_score(scorer), R(100, 1))

\* ------------------------------------------------ RealTimePoseScorer claims

\* The last k entries of q.
LastN(q, k) == SubSeq(q, Len(q) - k + 1, Len(q))
\* The numbers of the score_pose calls since the scorer was created or reset.
SessionCalls == [i \in 1 .. session.calls - session.first + 1 |->
                    session.first + i - 1]
CallsOf(q) == [i \in 1 .. Len(q) |-> q[i].call]
ScorePoseReturned == last_call.op = "score_pose"
ScorePoseCalled == last_call.op \in {"score_pose", "score_pose raised"}

\* C11: each rolling buffer (user poses, user timestamps, pose-score
\* samples) holds at most max_history entries, and they are the most recent
\* entries in arrival order; the smoothing window holds the (at most) 5
\* most recent smoothed poses.
C11_BuffersKeepMostRecent ==
    LET recent == LastN(SessionCalls,
                        Min2(Len(SessionCalls), scorer.max_history))
    IN /\ Len(scorer.user_poses) <= scorer.max_history
       /\ Len(scorer.user_timestamps) <= scorer.max_history
       /\ Len(scorer.pose_scores) <= scorer.max_history
       /\ Len(scorer.pose_history) <= SmoothingWindow
       /\ CallsOf(scorer.user_poses) = recent
       /\ CallsOf(scorer.user_timestamps) = recent
       /\ scorer.pose_scores =
             LastN(session.samples,
                   Min2(Len(session.samples), scorer.max_history))
       /\ CallsOf(scorer.pose_history) =
             LastN(SessionCalls, Min2(Len(SessionCalls), SmoothingWindow))
\* Every buffer has evicted an entry.
C11_BuffersOverflowed ==
    /\ Len(session.samples) > SmoothingWindow
    /\ Len(session.samples) > scorer.max_history
    /\ Len(scorer.pose_history) = SmoothingWindow

\* C12: get_final_score aggregates over the whole session: its spatial,
\* timing and rhythm means are those of every sample score_pose produced
\* since the scorer was created or last reset, and total_poses is the
\* number of those samples.
C12_FinalScoreOverWholeSession ==
    session.samples # <<>> =>
        LET final == get_final_score(scorer)
        IN /\ final.total_poses = Len(session.samples)
           /\ final.spatial_score = Percent(SpatialMean(session.samples))
           /\ final.timing_score = Percent(TimingMean(session.samples))
           /\ final.rhythm_score = Percent(RhythmMean(session.samples))

\* C13: after reset() get_current_score returns 0 and get_final_score
\* reports zero poses, and the next score_pose behaves as the first call of
\* a fresh scorer: its pose is returned unsmoothed and the alignment start
\* time is that call's timestamp.
C13_ResetStartsFresh ==
    /\ last_call.op = "reset" =>
          /\ get_current_score(scorer) = Zero
          /\ get_final_score(scorer).total_poses = 0
    /\ (ScorePoseCalled /\ last_call.first /\ session.first > 1) =>
          /\ last_call.smoothed_pose = last_call.user_pose
          /\ scorer.start_time = last_call.timestamp

\* C14: score_pose never fails with an exception, whatever reference is
\* loaded and whatever the timestamp; a reference of duration 0 (a single
\* pose, or a last timestamp of 0) is handled without a modulo by zero.
C14_ScorePoseNeverRaises == last_call.op # "score_pose raised"

\* Whole reference durations by which a timestamp is shifted.
Loops == {-2, -1, 1, 2}
\* The latest score_pose call was aligned with a reference of positive
\* duration.
Aligned == ScorePoseReturned /\ last_call.matched
Elapsed == Norm(RSub(last_call.timestamp, scorer.start_time))

\* C15: the alignment loops.  For a reference of positive duration D and N
\* poses the index chosen for a timestamp is that of every timestamp a
\* whole number of durations away (it depends only on the elapsed time
\* modulo D), and it is in 0 .. N-1 for every timestamp, also one earlier
\* than the start time.
C15_AlignmentLoops ==
    Aligned =>
       /\ last_call.ref_index \in 0 .. scorer.reference_poses - 1
       /\ \A k \in Loops :
             LET shifted ==
                     Norm(RAdd(last_call.timestamp,
                               RMul(R(k, 1), ReferenceDuration(scorer))))
                 match == find_best_reference_match(scorer, shifted)
             IN /\ match.matched
                /\ match.ref_index = last_call.ref_index
\* A timestamp earlier than the start time is aligned with a later pose of
\* a 2 s reference.
C15_AlignedBeforeStart ==
    /\ Aligned
    /\ ReferenceDuration(scorer) = R(2, 1)
    /\ RLt(Elapsed, Zero)
    /\ last_call.ref_index > 0

\* C16: the alignment start time is the timestamp of the first score_pose
\* call since the scorer was created or last reset, and keeps that value
\* over later score_pose and load_reference_dance calls until reset, also
\* when poses were scored before a reference was loaded.
C16_StartTimeIsFirstCall ==
    session.anchor # NoTime => scorer.start_time = session.anchor

\* C17: the smoothing recurrence.  The first pose smoothed after creation
\* or reset is returned unchanged; every later one is
\* factor * input + (1 - factor) * (the smoothed pose returned by the call
\* before), not a raw input nor an older entry of the smoothing window.
C17_SmoothingRecurrence ==
    ScorePoseCalled =>
        last_call.smoothed_pose =
            IF last_call.first THEN last_call.user_pose
            ELSE Norm(RAdd(RMul(scorer.smoothing_factor,
                                last_call.user_pose),
                           RMul(RSub(One, scorer.smoothing_factor),
                                last_call.previous)))
\* A pose is blended with the latest of a full smoothing window whose
\* oldest entry differs from it.
C17_BlendedWithLatest ==
    /\ ScorePoseCalled
    /\ Len(last_call.before.pose_history) = SmoothingWindow
    /\ last_call.before.pose_history[1].pose # last_call.previous
    /\ last_call.smoothed_pose # last_call.user_pose

\* The sample the latest score_pose call returned, and the position of that
\* call among the calls since the scorer was created or reset.
ReturnedSample == session.samples[Len(session.samples)]
CallOfSession == last_call.call - session.first + 1

\* C18: too short a history gives neutral scores: the sample returned by
\* the first score_pose call of a session has timing_score 0.5, and the
\* samples returned by its first two calls have rhythm_score 0.5.
C18_NeutralScores ==
    ScorePoseReturned =>
       /\ CallOfSession = 1 => ReturnedSample.timing_score = Half
       /\ CallOfSession <= 2 => ReturnedSample.rhythm_score = Half
\* The second call after a reset returns a neutral rhythm score and a
\* computed timing score.
C18_SecondCallAfterReset ==
    /\ ScorePoseReturned
    /\ session.first > 2
    /\ CallOfSession = 2
    /\ ReturnedSample.timing_score # Half

\* The weighted score of one sample.
SampleScore(s, sample) ==
    RAdd(RAdd(RMul(s.spatial_weight, sample.spatial_score),
              RMul(s.timing_weight, sample.timing_score)),
         RMul(s.rhythm_weight, sample.rhythm_score))
\* The scorer with every sample older than the last RecentWindow removed.
WithoutOlder(s) ==
    [s EXCEPT !.pose_scores =
                  LastN(@, Min2(RecentWindow, Len(s.pose_scores)))]

\* C19: get_current_score is 100 times the weighted sum of the means of the
\* sub-scores of the last min(30, n) of the n samples in the history;
\* older samples do not influence it, and it is 0 for an empty history.
C19_CurrentScoreOfRecent ==
    LET pose_scores == scorer.pose_scores
        n == Len(pose_scores)
        k == Min2(RecentWindow, n)
    IN /\ n = 0 => get_current_score(scorer) = Zero
       /\ n > 0 =>
             /\ get_current_score(scorer) =
                   Norm(RMul(SumSeq([i \in 1 .. k |->
                                        SampleScore(scorer,
                                                    pose_scores[n - k + i])]),
                             R(100, k)))
             /\ get_current_score(scorer) =
                   get_current_score(WithoutOlder(scorer))
\* The history holds more than 30 samples, and the samples before the last
\* 30 differ from them.
C19_LongHistory ==
    /\ Len(scorer.pose_scores) > RecentWindow
    /\ scorer.pose_scores[1].timing_score
          # scorer.pose_scores[Len(scorer.pose_scores)].timing_score

\* The suggestions for the sub-scores below 60, in the order spatial,
\* timing, rhythm.
Below60(final) ==
    (IF RLt(final.spatial_score, R(60, 1))
     THEN <<"improve pose accuracy">> ELSE <<>>)
    \o (IF RLt(final.timing_score, R(60, 1))
        THEN <<"work on timing consistency">> ELSE <<>>)
    \o (IF RLt(final.rhythm_score, R(60, 1))
        THEN <<"focus on rhythm and flow">> ELSE <<>>)

\* C20: the feedback of get_final_score.  An overall score of at least 90,
\* 80, 70, 60 selects the first that applies of four fixed strings; below
\* 60 the feedback is the suggestion composed of exactly those of the
\* spatial, timing and rhythm suggestions whose score is below 60.
C20_FeedbackSelection ==
    scorer.pose_scores # <<>> =>
        LET final == get_final_score(scorer)
            overall == final.overall_score
        IN final.feedback =
              IF RLe(R(90, 1), overall)
              THEN <<"Outstanding performance! Perfect execution!">>
              ELSE IF RLe(R(80, 1), overall)
              THEN <<"Excellent dancing! Great job!">>
              ELSE IF RLe(R(70, 1), overall)
              THEN <<"Good performance! Keep practicing!">>
              ELSE IF RLe(R(60, 1), overall)
              THEN <<"Nice effort! Focus on improvement areas below.">>
              ELSE <<"Try to ">> \o Join(Below60(final)) \o <<".">>

\* --------------------------------------------- normalize_features claims

Normalized == features.stage = "normalized"
AmplitudeSet == {features.amplitudes[i] : i \in DOMAIN features.amplitudes}

\* C21: normalize_features maps the amplitudes of a song into [0, 1] by
\* min-max over the song: the minimum maps to 0, the maximum to 1, every
\* other amplitude to (a - min) / (max - min) (rounded), in the order of
\* the amplitudes; when all amplitudes are equal every value is 0.5; there
\* is one value per segment.
C21_AmplitudeMinMax ==
    Normalized =>
        LET a == features.amplitudes
            n == features.norm_amplitudes
        IN /\ Len(n) = Len(a)
           /\ \A i \in DOMAIN a : RLe(Zero, n[i]) /\ RLe(n[i], One)
           /\ Cardinality(AmplitudeSet) = 1 => \A i \in DOMAIN a : n[i] = Half
           /\ Cardinality(AmplitudeSet) > 1 =>
                 LET min_amp == SetMin(AmplitudeSet)
                     max_amp == SetMax(AmplitudeSet)
                 IN \A i \in DOMAIN a :
                       /\ a[i] = min_amp => n[i] = Zero
                       /\ a[i] = max_amp => n[i] = One
                       /\ Within(n[i], R(a[i] - min_amp, max_amp - min_amp),
                                 1)
                       /\ \A j \in DOMAIN a : a[i] <= a[j] => RLe(n[i], n[j])
\* Three segments of three different amplitudes, the least above 0, were
\* normalised.
C21_ThreeLevels ==
    /\ Normalized
    /\ Cardinality(AmplitudeSet) = 3
    /\ SetMin(AmplitudeSet) > 0

\* (bpm - 60) / 140 clamped to [0, 1], exactly.
ExactNormBpm(bpm) ==
    RMax(Zero, RMin(One, R(bpm - BpmLo, BpmHi - BpmLo)))

\* C22: the normalised BPM is (bpm - 60) / 140 (rounded) clamped to
\* [0, 1]: a BPM of at most 60 gives 0, one of at least 200 gives 1, the
\* map is non-decreasing, and the value of a segment does not depend on
\* the other segments of the song.
C22_BpmClamped ==
    Normalized =>
        LET b == features.bpms
            n == features.norm_bpms
        IN /\ Len(n) = Len(b)
           /\ \A i \in DOMAIN b :
                 /\ RLe(Zero, n[i]) /\ RLe(n[i], One)
                 /\ b[i] <= BpmLo => n[i] = Zero
                 /\ b[i] >= BpmHi => n[i] = One
                 /\ Within(n[i], ExactNormBpm(b[i]), 2)
                 /\ \A j \in DOMAIN b : b[i] <= b[j] => RLe(n[i], n[j])
                 /\ n[i] = NormBpms(<<b[i]>>)[1]
\* A song with a tempo of 40, one inside the range and one of 260 was
\* normalised.
C22_OutOfRangeTempos ==
    /\ Normalized
    /\ features.bpms = <<40, 130, 260>>
    /\ features.norm_bpms[1] = Zero
    /\ features.norm_bpms[3] = One

\* ------------------------------------------------ two scorers, claims

\* C23: two scorers share no mutable state: a call of score_pose, reset,
\* get_current_score or get_final_score on the scorer of one performer
\* leaves every buffer, the smoothing state, the start time and the scores
\* of the other performer's scorer unchanged.
C23_SessionsIndependent ==
    last_call.op # None =>
        \A n \in Performers :
           n # last_call.performer => Observed(n) = last_call.observed[n]
\* A scored pose of A follows scored poses of B, whose scorer holds
\* samples and another start time.
C23_BothScored ==
    /\ last_call.op = "score_pose"
    /\ last_call.performer = "A"
    /\ Created("B")
    /\ Deref("B").pose_scores # <<>>
    /\ Deref("A").pose_scores # <<>>
    /\ Deref("B").start_time # NoTime
    /\ Deref("B").start_time # Deref("A").start_time

\* ------------------------------------------- clip selection, claims

\* A decision for a segment while a clip is active.
ActiveDecision == DecisionStep /\ current_dance_file # None
\* A selection has just been started for this segment: the locals still
\* hold the elapsed time, duration and intensity of the clip it replaces.
SelectionStarted == pc = "select" /\ retry = 0 /\ seg > 1

C25_RemainingFramesTrigger ==
    [][(/\ ActiveDecision
        /\ ~Exhausted
        /\ ~IntensitySwitch(seg)
        /\ fails' = fails)
       => (pc' = "select" <=> RemainingFrames < SegmentBudget(seg))]_vars

\* A step that makes a clip the active clip (lines 376-379, 396-398).
SelectionStep == pc = "select" /\ current_dance_file' # None

\* C26: clip exhaustion.  At the decision of a segment with an active clip,
\* elapsed >= the recorded duration always starts a new selection, whatever
\* the intensity; the duration recorded at a selection is the clip's
\* frameCount / 30 when the clip store yields it, and 5.0 s when it does
\* not.
C26_ClipExhaustion ==
    [][/\ (/\ ActiveDecision
           /\ RLe(current_dance_duration, R(current_dance_elapsed, 1)))
          => pc' = "select"
       /\ SelectionStep
          => current_dance_duration' =
                IF fails' = fails
                THEN R(NumFrames(current_dance_file'), ClipFrameRate)
                ELSE R(DefaultDuration, 1)]_vars
\* A clip whose duration could not be obtained is replaced after 5.0 s
\* although the intensity has not changed.
C26_ExhaustedSameIntensity ==
    /\ SelectionStarted
    /\ current_dance_duration = R(DefaultDuration, 1)
    /\ current_dance_elapsed = DefaultDuration
    /\ intensity = current_intensity

\* The step after the last frame of a segment (lines 487-488).
SegmentEmitted == pc = "frames" /\ pc' = "segment"

\* C27: elapsed-time accounting.  Every selection (a filtered attempt or
\* the fallback, also of the clip that was active before) sets elapsed to
\* 0; elapsed advances only once all the frames of a segment are emitted,
\* and then by that segment's wall-clock duration; no other step of the
\* run changes it.  Hence at every decision elapsed is the sum of the
\* durations of the segments emitted since the active clip was selected.
C27_ElapsedAccounting ==
    [][pc' # "done"
       => (/\ SelectionStep => current_dance_elapsed' = 0
           /\ SegmentEmitted
              => (/\ frame_idx = SegmentBudget(seg)
                  /\ current_dance_elapsed' =
                        current_dance_elapsed
                        + EndTime(seg, inp.song_duration) - StartTime(seg))
           /\ (~SelectionStep /\ ~SegmentEmitted)
              => current_dance_elapsed' = current_dance_elapsed)]_vars
\* The decision of the third segment, for a clip selected in the first:
\* two segments of 5 s were emitted since.
C27_TwoSegmentsElapsed ==
    /\ pc = "segment"
    /\ seg = 3
    /\ seg <= NumSegments(inp.song_duration)
    /\ current_dance_file # None
    /\ current_dance_elapsed = 2 * SegmentLength

\* The listed clips the intensity table tags with intensity i, and every
\* listed clip.
Tagged(i) ==
    {Cat.available_dances[k] :
        k \in {j \in DOMAIN Cat.available_dances :
                  /\ j \in DOMAIN Cat.intensity_mappings
                  /\ Cat.intensity_mappings[j] = i}}
Listed == {Cat.available_dances[k] : k \in DOMAIN Cat.available_dances}
CandidatePool == IF Tagged(intensity) # {} THEN Tagged(intensity) ELSE Listed

\* C28: candidate pool.  When at least one listed clip is tagged with the
\* segment's intensity, every candidate and the clip that becomes active
\* (by a filtered attempt or by the fallback) is tagged with it; a clip is
\* drawn from the full catalog only when no clip carries the tag.
C28_CandidatePool ==
    [][pc = "select"
       => (/\ current_dance_file' # None
              => current_dance_file' \in CandidatePool
           /\ selected_dance' # None
              => selected_dance' \in CandidatePool)]_vars
\* The fallback activated the all-NaN clip, the only one tagged HIGH in a
\* catalog of four.
C28_FallbackKeptTag ==
    /\ pc = "frames"
    /\ current_dance_file = "bad"
    /\ intensity = HIGH
    /\ Tagged(HIGH) = {"bad"}
    /\ Listed # {"bad"}

\* A pass of the retry loop that examined a candidate.
AttemptStep == pc = "select" /\ retry < max_retries /\ pc' # "done"
\* Fewer than 30% of the frames sampled from clip c (up to 10) held an
\* invalid coordinate, n being the number that did.
FewInvalid(c, n) ==
    /\ ClipData(c).ndim \in {3, 4}
    /\ NumFrames(c) > 0
    /\ 10 * n < 3 * Min2(MaxSampleFrames, NumFrames(c))

\* C29: quality filter.  A selection examines at most 10 candidates; an
\* attempt accepts its candidate only if fewer than 30% of its sampled
\* frames hold an invalid coordinate, and rejects it only if 30% or more
\* do or it cannot be read; the accepted candidate ends the selection.
C29_QualityFilter ==
    [][/\ (pc = "select" /\ retry' = retry + 1) => retry < max_retries
       /\ (pc = "select" /\ pc' = "select") => retry' <= max_retries
       /\ (AttemptStep /\ current_dance_file' # None)
          => (/\ FewInvalid(current_dance_file', nan_count')
              /\ pc' = "frames")
       /\ (AttemptStep /\ current_dance_file' = None)
          => (/\ retry' = retry + 1
              /\ \/ fails' # fails
                 \/ ~FewInvalid(selected_dance', nan_count'))]_vars
\* A readable candidate of 3 frames was rejected: 1 of its 3 sampled frames
\* held an invalid coordinate.
C29_RejectedAtOneThird ==
    /\ pc = "select"
    /\ retry >= 1
    /\ selected_dance = "short"
    /\ nan_count = 1
    /\ current_dance_file = None

\* The step of the fallback: all 10 filtered attempts have failed.
FallbackStep == pc = "select" /\ retry = max_retries /\ pc' # "select"

\* C30 (as stated): when all 10 filtered attempts fail, the clip that
\* becomes active is the candidate picked on the last attempt.
C30_FallbackKeepsLastCandidate ==
    [][FallbackStep => current_dance_file' = selected_dance]_vars
\* C30 (amended): when all 10 filtered attempts fail, a clip drawn afresh
\* from the candidate pool becomes active, whatever its quality, with
\* elapsed 0 and the segment's intensity; a selection over a catalog that
\* lists a clip never ends without an active clip.
C30_FallbackDrawsFromPool ==
    [][/\ FallbackStep
          => (/\ pc' = "frames"
              /\ current_dance_file' \in CandidatePool
              /\ current_dance_elapsed' = 0
              /\ current_intensity' = intensity)
       /\ (pc = "select" /\ pc' # "select" /\ Listed # {})
          => (pc' = "frames" /\ current_dance_file' # None)]_vars
\* The fallback activated a clip other than the candidate of the tenth
\* attempt.
C30_FallbackDrewAnother ==
    /\ pc = "frames"
    /\ selected_dance # None
    /\ current_dance_file # None
    /\ current_dance_file # selected_dance

\* ------------------------------------------- pose resolution, claims

\* The latest frame was emitted from clip data that was read and has a
\* frame axis and frames.
ResolvedFromData ==
    /\ pose_sequence.len > 0
    /\ lastRead = "ok"
    /\ ClipData(Last.dance_file).ndim \in {3, 4}
    /\ NumFrames(Last.dance_file) > 0
TargetInvalid == Last.dance_frame \in ClipData(Last.dance_file).nan

\* The tries of an outward search around frame t of clip c with offsets
\* 1 .. radius: <<offset, 0>> is +offset and <<offset, 1>> is -offset.
TryFrame(c, t, try) ==
    (IF try[2] = 0 THEN t + try[1] ELSE t - try[1]) % NumFrames(c)
ValidTries(c, t, radius) ==
    {try \in (1 .. radius) \X {0, 1} :
        TryFrame(c, t, try) \notin ClipData(c).nan}
\* The first of them in the order +1, -1, +2, -2, ...
FirstTry(tries) ==
    CHOOSE try \in tries :
        \A other \in tries : 2 * try[1] + try[2] <= 2 * other[1] + other[2]
WithinRadius(c, t) ==
    ValidTries(c, t, Min2(SearchRadius, NumFrames(c)))

\* C31: outward search.  When the target frame holds an invalid coordinate,
\* the emitted pose is the first fully valid frame met with offsets
\* 1, 2, ..., min(50, frameCount), +offset before -offset, indices wrapped
\* modulo frameCount; so when such a frame exists the pose is not the
\* synthesized default.
C31_OutwardSearch ==
    (ResolvedFromData /\ TargetInvalid
     /\ WithinRadius(Last.dance_file, Last.dance_frame) # {})
       => Last.pose_data =
             FramePose(Last.dance_file,
                       TryFrame(Last.dance_file, Last.dance_frame,
                                FirstTry(WithinRadius(Last.dance_file,
                                                      Last.dance_frame))))

\* C32: no emitted pose carries invalid data.  Every non-null pose of the
\* output is a frame of the frame's clip with no invalid coordinate, or the
\* synthesized default pose; the default pose is used only when neither
\* the target frame nor any frame within the search radius
\* min(50, frameCount) is fully valid.
C32_NoInvalidPose ==
    (pose_sequence.len > 0 /\ Last.pose_data # NoPose)
       => \/ /\ Last.pose_data.kind = "frame"
             /\ Last.pose_data.clip = Last.dance_file
             /\ Last.pose_data.idx \in AllFrames(NumFrames(Last.dance_file))
             /\ Last.pose_data.idx \notin ClipData(Last.dance_file).nan
          \/ /\ Last.pose_data = DefaultPose
             /\ ResolvedFromData
             /\ TargetInvalid
             /\ WithinRadius(Last.dance_file, Last.dance_frame) = {}

\* C33 (as stated): the frame index emitted with a frame is the index of
\* the frame the pose was taken from: when the emitted pose is a frame of the clip (the target frame, or a nearby
\* valid frame when the target was invalid), dance_frame is the index of
\* the frame the pose was taken from.
C33_ResolvedFrameIndex ==
    (pose_sequence.len > 0 /\ Last.pose_data.kind = "frame")
       => /\ Last.pose_data.clip = Last.dance_file
          /\ Last.pose_data.idx = Last.dance_frame
\* C33 (amended): the frame index emitted with a frame whose clip data was
\* read is the target index, floor(elapsed * frameRate) + frameOffset
\* wrapped modulo frameCount, also when the pose was taken from a nearby
\* valid frame.
C33_TargetFrameIndex ==
    [][(/\ FrameStep
        /\ lastRead' = "ok"
        /\ NumFrames(current_dance_file) > 0)
       => pose_sequence'.last.dance_frame =
             (current_dance_elapsed * inp.frame_rate + frame_idx)
                % NumFrames(current_dance_file)]_vars
\* A frame whose target was invalid carries the pose of a nearby frame and
\* the index of the target.
C33_PoseFromNearbyFrame ==
    /\ ResolvedFromData
    /\ TargetInvalid
    /\ Last.pose_data.kind = "frame"
    /\ Last.pose_data.clip = Last.dance_file
    /\ Last.pose_data.idx # Last.dance_frame

\* ------------------------------------------------ the output, claims

\* C34: the output is ordered.  The frame_number of each emitted frame is
\* its 0-based position in the sequence, across segment boundaries and
\* clip changes and also for frames with a null pose, and the time of each
\* frame is greater than the time of the frame before it.
C34_PositionIsFrameNumber ==
    /\ pose_sequence.len > 0 => Last.frame_number = pose_sequence.len - 1
    /\ result.frames.len > 0
          => result.frames.last.frame_number = result.frames.len - 1
C34_OrderedOutput ==
    /\ []C34_PositionIsFrameNumber
    /\ [][(FrameStep /\ pose_sequence.len > 0)
          => RLt(Last.time, pose_sequence'.last.time)]_vars
\* A run over three segments returned all its frames, one of them with a
\* null pose.
C34_ThreeSegmentsReturned ==
    /\ pc = "done"
    /\ result.kind = "ok"
    /\ NumSegments(inp.song_duration) = 3
    /\ frameFails > 0
    /\ result.frames.last.frame_number = ExpectedFrames - 1

\* C35: with 5-second segments (only the last may be shorter) elapsed is
\* at least 5.0 s at the decision of every segment after the first, so the
\* 2.0 s dwell never blocks a switch: every segment whose intensity
\* differs from the active intensity gets a newly selected clip.
C35_DwellNeverBlocks ==
    [][(DecisionStep /\ seg > 1)
       => (/\ current_dance_file # None
           /\ current_dance_elapsed >= SegmentLength
           /\ SegmentIntensity(seg) # current_intensity
                 => (pc' = "select" /\ current_dance_file' = None))]_vars
\* The first frame of a segment is about to be emitted on a clip selected
\* for it; the frames of the segment before had another intensity.
C35_NewClipForNewIntensity ==
    /\ pc = "frames"
    /\ seg > 1
    /\ frame_idx = 0
    /\ current_dance_elapsed = 0
    /\ pose_sequence.len > 0
    /\ Last.intensity # intensity
    /\ current_intensity = intensity

\* C36: in every emitted frame the intensity label, the segment's
\* classified intensity, is the active intensity recorded when the frame's
\* clip was selected: no frame is emitted on a clip kept from a segment of
\* another intensity.
C36_LabelIsActiveIntensity ==
    [][FrameStep
       => (/\ pose_sequence'.last.intensity = intensity
           /\ pose_sequence'.last.intensity = current_intensity
           /\ pose_sequence'.last.dance_file = current_dance_file)]_vars
\* A frame was emitted on a clip kept from the segment before.
C36_FrameOnKeptClip ==
    /\ pc = "frames"
    /\ frame_idx > 0
    /\ current_dance_elapsed >= SegmentLength
    /\ Last.dance_file = current_dance_file
    /\ Last.intensity = current_intensity

\* C37: looping only happens in the segment of selection.  When a clip
\* whose data is read at the decision is kept for a segment, the raw
\* target index floor(elapsed * frameRate) + frameOffset of every frame of
\* the segment is below frameCount, so the modulo does not change it; the
\* frames of a segment are emitted at offsets below its frame budget.
C37_KeptClipDoesNotLoop ==
    [][/\ (ActiveDecision /\ pc' = "frames" /\ fails' = fails)
          => current_dance_elapsed * inp.frame_rate + SegmentBudget(seg)
                <= NumFrames(current_dance_file)
       /\ FrameStep
          => (/\ frame_idx < SegmentBudget(seg)
              /\ (/\ current_dance_elapsed > 0
                  /\ fails = 0
                  /\ lastRead' = "ok"
                  /\ NumFrames(current_dance_file) > 0)
                 => pose_sequence'.last.dance_frame =
                       current_dance_elapsed * inp.frame_rate
                       + frame_idx)]_vars
\* The last frame of a segment was emitted on a kept clip at its raw
\* target index.
C37_KeptClipLastFrame ==
    /\ pc = "frames"
    /\ frame_idx = total_frames
    /\ current_dance_elapsed >= SegmentLength
    /\ fails = 0
    /\ lastRead = "ok"
    /\ Last.dance_frame =
          current_dance_elapsed * inp.frame_rate + total_frames - 1

\* ------------------------------------- RealTimePoseScorer, more claims

\* C38: in every state of a scoring session at most max_history
\* pose-score samples are stored, so the total_poses of get_final_score
\* never exceeds max_history, and it equals max_history once max_history
\* poses have been scored since the scorer was created or last reset.
C38_TotalPosesCapped ==
    scorer # NoScorer =>
        /\ Len(scorer.pose_scores) <= scorer.max_history
        /\ get_final_score(scorer).total_poses <= scorer.max_history
        /\ Len(session.samples) >= scorer.max_history
              => get_final_score(scorer).total_poses = scorer.max_history
\* More poses than max_history were scored and total_poses is max_history.
C38_MorePosesThanHistory ==
    /\ scorer # NoScorer
    /\ Len(session.samples) > scorer.max_history
    /\ get_final_score(scorer).total_poses = scorer.max_history

\* C39: reset() changes only the session history.  It empties the four
\* buffers and clears start_time and current_ref_index; it leaves the
\* loaded reference poses and timestamps and the configured weights,
\* alpha, smoothing factor and max_history as they are; a reset that
\* follows a reset changes nothing.
C39_ResetKeepsConfiguration ==
    [][last_call'.op = "reset"
       => (/\ scorer'.reference_poses = scorer.reference_poses
           /\ scorer'.reference_timestamps = scorer.reference_timestamps
           /\ scorer'.spatial_weight = scorer.spatial_weight
           /\ scorer'.timing_weight = scorer.timing_weight
           /\ scorer'.rhythm_weight = scorer.rhythm_weight
           /\ scorer'.alpha = scorer.alpha
           /\ scorer'.smoothing_factor = scorer.smoothing_factor
           /\ scorer'.max_history = scorer.max_history
           /\ scorer'.user_poses = <<>>
           /\ scorer'.user_timestamps = <<>>
           /\ scorer'.pose_scores = <<>>
           /\ scorer'.pose_history = <<>>
           /\ scorer'.start_time = NoTime
           /\ scorer'.current_ref_index = 0
           /\ last_call.op = "reset" => scorer' = scorer)]_vars
\* A scorer with a loaded reference was reset after poses were scored.
C39_ResetWithReference ==
    /\ last_call.op = "reset"
    /\ session.first > 1
    /\ scorer.reference_poses > 0
    /\ scorer.reference_timestamps # <<>>
    /\ scorer.pose_scores = <<>>

====
